---- MODULE Spec2Model ----
(***************************************************************************)
(* Model of coverage/plugin.py: the plug-in protocol of coverage.py.       *)
(*                                                                         *)
(* Three parts:                                                            *)
(*   - FileReporter.source_token_lines (a generator over source()),        *)
(*   - FileReporter's value methods, equality and ordering,                *)
(*   - the measurement engine that drives CoveragePlugin and FileTracer.   *)
(***************************************************************************)
EXTENDS Integers, Sequences, FiniteSets, TLC

\* ---------------------------------------------------------------- bounds
\* longest source text, in characters
MaxLen == 3

\* longest file name, in characters
MaxNameLen == 2

\* largest line number of a source file
MaxLine == 2

\* ------------------------------------------------- source_token_lines()
VARIABLES text, pending, yielded, tpc

\* the reporters under comparison or analysis, and the last call's result
VARIABLES reps, ret

\* the list of recorded line numbers handed to translate_lines, and the
\* values its calls returned so far
VARIABLES recd, outs

\* the measurement engine: the registered plug-ins, the disposition of
\* each executed file, the plug-ins asked about it, the files whose tracer
\* had dynamic_source_filename invoked, the ranges the tracers returned,
\* the lines recorded, the last frame's handling, the number of frames,
\* the outcome of file_reporter per file, the phase and the fatal error
VARIABLES plugins, disp, asked, dyncalled, returned, recorded, last,
          nframes, report, phase, fatal

\* dynamic contexts: the registered context plug-in, the call stack, the
\* current context, the measured lines with their tags, the last call
VARIABLES cplugin, stack, context, tagged, lastctx

tokvars == <<text, pending, yielded, tpc>>

repvars == <<reps, ret, recd, outs>>

engvars == <<plugins, disp, asked, dyncalled, returned, recorded, last,
             nframes, report, phase, fatal>>

ctxvars == <<cplugin, stack, context, tagged, lastctx>>

vars == <<tokvars, repvars, engvars, ctxvars>>

\* Python's None
None == [none |-> TRUE]

\* the engine and the context switcher before they are started
EngIdle ==
    /\ plugins = <<>>
    /\ disp = <<>>
    /\ asked = <<>>
    /\ dyncalled = {}
    /\ returned = {}
    /\ recorded = <<>>
    /\ last = None
    /\ nframes = 0
    /\ report = <<>>
    /\ phase = "idle"
    /\ fatal = None

CtxIdle ==
    /\ cplugin = None
    /\ stack = <<>>
    /\ context = None
    /\ tagged = {}
    /\ lastctx = None

\* ret before any call
NoCall == [op |-> "none", val |-> {}]

\* characters of a source text: an ordinary character, "\n" and "\r"
Chars == {"x", "LF", "CR"}

Texts == UNION {[1..n -> Chars] : n \in 0..MaxLen}

\* str.splitlines() recognises "\n", "\r" and "\r\n" as line boundaries
IsLinebreak(c) == c \in {"LF", "CR"}

\* index of the first line break of s, Len(s)+1 when there is none
FirstBreak(s) ==
    IF \E i \in 1..Len(s) : IsLinebreak(s[i])
    THEN CHOOSE i \in 1..Len(s) :
             /\ IsLinebreak(s[i])
             /\ \A j \in 1..(i-1) : ~IsLinebreak(s[j])
    ELSE Len(s) + 1

RECURSIVE splitlines(_)
\* str.splitlines(), keepends=False: the line breaks are dropped, and a
\* final line break does not open a further (empty) line
splitlines(s) ==
    IF s = <<>> THEN <<>>
    ELSE LET eol == FirstBreak(s)
             next == IF eol > Len(s) THEN eol
                     ELSE IF s[eol] = "CR" /\ eol + 1 <= Len(s) /\ s[eol + 1] = "LF"
                          THEN eol + 2
                          ELSE eol + 1
         IN  <<SubSeq(s, 1, eol - 1)>> \o splitlines(SubSeq(s, next, Len(s)))

\* FileReporter.source(): the text of the file, whatever it is
source(t) == t

\* one yielded line: [('txt', line)]
TxtLine(line) == <<<<"txt", line>>>>

\* call of source_token_lines(): the generator body starts, evaluating
\* self.source().splitlines()
source_token_lines ==
    /\ tpc = "idle"
    /\ pending' = splitlines(source(text))
    /\ yielded' = <<>>
    /\ tpc' = "iterating"
    /\ UNCHANGED text
    /\ UNCHANGED <<repvars, engvars, ctxvars>>

\* one iteration of the for loop: yield [('txt', line)]
YieldLine ==
    /\ tpc = "iterating"
    /\ pending # <<>>
    /\ yielded' = Append(yielded, TxtLine(Head(pending)))
    /\ pending' = Tail(pending)
    /\ UNCHANGED <<text, tpc>>
    /\ UNCHANGED <<repvars, engvars, ctxvars>>

\* the for loop is exhausted: the generator returns
StopIteration ==
    /\ tpc = "iterating"
    /\ pending = <<>>
    /\ tpc' = "done"
    /\ UNCHANGED <<text, pending, yielded>>
    /\ UNCHANGED <<repvars, engvars, ctxvars>>

TokInit ==
    /\ text \in Texts
    /\ pending = <<>>
    /\ yielded = <<>>
    /\ tpc = "idle"
    /\ reps = <<>>
    /\ ret = NoCall
    /\ recd = <<>>
    /\ outs = <<>>
    /\ EngIdle
    /\ CtxIdle

TokNext == source_token_lines \/ YieldLine \/ StopIteration

SpecTok == TokInit /\ [][TokNext]_vars

\* what a consumer of source_token_lines() rebuilds -----------------------
RECURSIVE ConcatTokens(_)
\* the token texts of one line, concatenated
ConcatTokens(line) ==
    IF line = <<>> THEN <<>> ELSE Head(line)[2] \o ConcatTokens(Tail(line))

RECURSIVE JoinLines(_)
\* "\n".join(lines)
JoinLines(ls) ==
    IF ls = <<>> THEN <<>>
    ELSE IF Len(ls) = 1 THEN ConcatTokens(ls[1])
    ELSE ConcatTokens(ls[1]) \o <<"LF">> \o JoinLines(Tail(ls))

\* C1: once source_token_lines() is exhausted, concatenating the token
\* texts of each yielded line and joining the lines with "\n" gives back
\* source() exactly, for every source text.
C1_RoundTrip == tpc = "done" => JoinLines(yielded) = source(text)

\* ------------------------------------------------------- FileReporter
\* characters of a file name, and their code points
NameChars == {"a", "b"}

Ord(c) == IF c = "a" THEN 97 ELSE 98

Names == UNION {[1..n -> NameChars] : n \in 0..MaxNameLen}

\* str < str: lexicographic by code point, a proper prefix is smaller
StrLt(s, t) ==
    \E k \in 0..Len(s) :
        /\ k <= Len(t)
        /\ \A i \in 1..k : s[i] = t[i]
        /\ \/ k = Len(s) /\ k < Len(t)
           \/ k < Len(s) /\ k < Len(t) /\ Ord(s[k + 1]) < Ord(t[k + 1])

\* line numbers of a source file, and -1 for the entry or exit of a code object
Lines == 1..MaxLine

ArcPairs == Lines \X ({-1} \cup Lines)

\* the classes of reporter: the base class used as is, and a plug-in's
\* subclass that overrides lines() and arcs() and nothing else
ReporterClasses == {"FileReporter", "PluginReporter"}

\* FileReporter.__init__(filename): the object after construction; a
\* subclass's further attributes are linedata and arcdata
FileReporter(cls, filename, linedata, arcdata) ==
    [cls |-> cls, filename |-> filename, linedata |-> linedata, arcdata |-> arcdata]

isinstance_FileReporter(o) == o.cls \in ReporterClasses

\* FileReporter.__eq__
eq_same_class(self, other) ==
    self.cls = other.cls /\ self.filename = other.filename

eq(self, other) ==
    isinstance_FileReporter(other) /\ self.filename = other.filename

\* object.__ne__: the inverse of __eq__
ne(self, other) == ~eq(self, other)

\* FileReporter.__lt__
lt_by_length(self, other) ==
    isinstance_FileReporter(other) /\ Len(self.filename) < Len(other.filename)

lt(self, other) ==
    isinstance_FileReporter(other) /\ StrLt(self.filename, other.filename)

\* functools.total_ordering, given __lt__: the three derived operators
le(self, other) == lt(self, other) \/ eq(self, other)

gt(self, other) == ~lt(self, other) /\ ne(self, other)

ge(self, other) == ~lt(self, other)

\* the pairs of reporters a report's sort or a test compares
Pairs == (1..3) \X (1..3)

\* a comparison of every pair of the reporters has returned
Compared(name, table) ==
    /\ ret' = [op |-> name, val |-> [i \in 1..3 |-> [j \in 1..3 |-> table[<<i, j>>]]]]
    /\ UNCHANGED <<reps, recd, outs>>
    /\ UNCHANGED <<tokvars, engvars, ctxvars>>

call_eq == Compared("eq", [p \in Pairs |-> eq(reps[p[1]], reps[p[2]])])

call_lt == Compared("lt", [p \in Pairs |-> lt(reps[p[1]], reps[p[2]])])

call_le == Compared("le", [p \in Pairs |-> le(reps[p[1]], reps[p[2]])])

call_gt == Compared("gt", [p \in Pairs |-> gt(reps[p[1]], reps[p[2]])])

call_ge == Compared("ge", [p \in Pairs |-> ge(reps[p[1]], reps[p[2]])])

\* reporters as the comparisons meet them: any class, any file name, any
\* other state
OrdReporters ==
    {FileReporter("FileReporter", n, {}, {}) : n \in Names}
    \cup {FileReporter("PluginReporter", n, {}, a) : n \in Names, a \in {{}, {<<1, -1>>}}}

TokIdle ==
    /\ text = <<>>
    /\ pending = <<>>
    /\ yielded = <<>>
    /\ tpc = "idle"

OrdInit ==
    /\ reps \in [1..3 -> OrdReporters]
    /\ ret = NoCall
    /\ recd = <<>>
    /\ outs = <<>>
    /\ TokIdle
    /\ EngIdle
    /\ CtxIdle

OrdNext == call_eq \/ call_lt \/ call_le \/ call_gt \/ call_ge

SpecOrd == OrdInit /\ [][OrdNext]_vars

\* C5: two reporters are equal if and only if their filename attributes
\* are equal, whatever their class and other state.
C5_EqIffFilename ==
    ret.op = "eq" =>
        \A i, j \in 1..3 : ret.val[i][j] = (reps[i].filename = reps[j].filename)

\* an equality was evaluated on reporters of different classes and state
\* with the same file name, and on reporters with different file names
C5_Witness ==
    /\ ret.op = "eq"
    /\ reps[1].filename = reps[2].filename
    /\ reps[1].cls # reps[2].cls
    /\ reps[1].arcdata # reps[2].arcdata
    /\ ret.val[1][2]
    /\ reps[1].filename # reps[3].filename
    /\ ~ret.val[1][3]

\* C6: < is a strict total order on the file names (irreflexive, exactly
\* one of a<b and b<a for distinct names, transitive), and <=, > and >=
\* agree with the same comparison of the file names.
C6_StrictTotalOrder ==
    LET f(i) == reps[i].filename
        v == ret.val
    IN  /\ ret.op = "lt" =>
            /\ \A i \in 1..3 : ~v[i][i]
            /\ \A i, j \in 1..3 : f(i) # f(j) => (v[i][j] <=> ~v[j][i])
            /\ \A i, j \in 1..3 : f(i) = f(j) => ~v[i][j]
            /\ \A i, j, k \in 1..3 : v[i][j] /\ v[j][k] => v[i][k]
            /\ \A i, j \in 1..3 : v[i][j] = StrLt(f(i), f(j))
        /\ ret.op = "le" =>
            \A i, j \in 1..3 : v[i][j] = (StrLt(f(i), f(j)) \/ f(i) = f(j))
        /\ ret.op = "gt" =>
            \A i, j \in 1..3 : v[i][j] = StrLt(f(j), f(i))
        /\ ret.op = "ge" =>
            \A i, j \in 1..3 : v[i][j] = (StrLt(f(j), f(i)) \/ f(i) = f(j))

\* three reporters with pairwise distinct names were compared with <, in
\* an order that differs from the order of their lengths
C6_Witness ==
    /\ ret.op = "lt"
    /\ ret.val[1][2] /\ ret.val[2][3] /\ ret.val[1][3]
    /\ Len(reps[1].filename) > Len(reps[2].filename)

\* ------------------------------------- FileReporter's analysis methods
\* coverage.misc._needs_to_implement(that, func_name): the fatal error of
\* an interface stub, naming the class and the method
needs_to_implement(that, func_name) ==
    [error |-> "needs to implement", class |-> that.cls, method |-> func_name]

IsError(v) == "error" \in DOMAIN v

\* an empty dict
EmptyDict == [x \in {} |-> 0]

\* FileReporter.lines
lines_returns_empty(self) == [value |-> {}]

lines(self) == needs_to_implement(self, "lines")

\* FileReporter.excluded_lines
excluded_lines(self) == [value |-> {}]

\* FileReporter.arcs
arcs(self) == [value |-> {}]

\* FileReporter.no_branch_lines
no_branch_lines(self) == [value |-> {}]

\* FileReporter.exit_counts
exit_counts(self) == [value |-> EmptyDict]

\* the subclass's overrides: lines() and arcs() return its own data
PluginReporter_lines(self) == [value |-> self.linedata]

PluginReporter_arcs(self) == [value |-> self.arcdata]

\* method resolution: the subclass's override when it has one
Dispatch(self, method) ==
    CASE method = "lines" ->
             IF self.cls = "PluginReporter" THEN PluginReporter_lines(self)
             ELSE lines(self)
      [] method = "arcs" ->
             IF self.cls = "PluginReporter" THEN PluginReporter_arcs(self)
             ELSE arcs(self)
      [] method = "excluded_lines" -> excluded_lines(self)
      [] method = "no_branch_lines" -> no_branch_lines(self)
      [] method = "exit_counts" -> exit_counts(self)

Call(method) ==
    /\ ret' = [op |-> method, val |-> Dispatch(reps[1], method)]
    /\ UNCHANGED <<reps, recd, outs>>
    /\ UNCHANGED <<tokvars, engvars, ctxvars>>

call_lines == Call("lines")

call_excluded_lines == Call("excluded_lines")

call_arcs == Call("arcs")

call_no_branch_lines == Call("no_branch_lines")

call_exit_counts == Call("exit_counts")

\* the reporters under analysis: the base class, and subclass instances
\* with any executable lines and arcs
MethReporters ==
    {FileReporter("FileReporter", <<"a">>, {}, {})}
    \cup {FileReporter("PluginReporter", <<"a">>, l, a) :
              l \in SUBSET Lines, a \in SUBSET ArcPairs}

MethInit ==
    /\ reps \in [1..1 -> MethReporters]
    /\ ret = NoCall
    /\ recd = <<>>
    /\ outs = <<>>
    /\ TokIdle
    /\ EngIdle
    /\ CtxIdle

MethNext ==
    \/ call_lines
    \/ call_excluded_lines
    \/ call_arcs
    \/ call_no_branch_lines
    \/ call_exit_counts

SpecMeth == MethInit /\ [][MethNext]_vars

\* C7: for every line L that is the prev of some pair of arcs(),
\* exit_counts()[L] is the number of distinct next values paired with L.
C7_ExitCountsConsistent ==
    ret.op = "exit_counts" =>
        LET a == Dispatch(reps[1], "arcs").value
            counts == ret.val.value
        IN  \A L \in {p[1] : p \in a} :
                /\ L \in DOMAIN counts
                /\ counts[L] = Cardinality({p[2] : p \in {q \in a : q[1] = L}})

\* C8: lines() of a reporter that does not override it ends in the fatal
\* error naming the class and the method "lines", while excluded_lines,
\* no_branch_lines, arcs and exit_counts return their empty defaults.
C8_LinesRequired ==
    reps[1].cls = "FileReporter" =>
        /\ ret.op = "lines" =>
               /\ IsError(ret.val)
               /\ ret.val.class = reps[1].cls
               /\ ret.val.method = "lines"
        /\ ret.op \in {"excluded_lines", "no_branch_lines", "arcs"} =>
               ret.val = [value |-> {}]
        /\ ret.op = "exit_counts" => ret.val = [value |-> EmptyDict]

\* lines() was called on a reporter of the base class
C8_Witness ==
    /\ reps[1].cls = "FileReporter"
    /\ ret.op = "lines"
    /\ IsError(ret.val)

\* ------------------------------------------ CoveragePlugin and FileTracer
\* the string "python", file_reporter's way to ask for the Python reporter
PythonStr == [str |-> "python"]

Str(s) == [str |-> s]

\* the executed files (absolute real paths), the source file each belongs
\* to, and the source a dynamic tracer finds in a frame
Files == {"/gen1.py", "/gen2.py"}

SourceOf(f) == IF f = "/gen1.py" THEN "/orig1.xyz" ELSE "/orig2.xyz"

DynNames == {"/tpl.html"}

Sources == {SourceOf(f) : f \in Files} \cup DynNames

\* what line_number_range can return
Ranges == {<<-1, -1>>} \cup (Lines \X Lines)

\* an execution frame: its line number, and what a plug-in's tracer reads
\* in it (the range of source lines, the template being rendered)
Frames == [f_lineno : Lines, range : Ranges, tpl : {None} \cup {Str(n) : n \in DynNames}]

\* a FileTracer object of class cls made for an executed file
FileTracer(cls, filename) == [cls |-> cls, filename |-> filename]

\* CoveragePlugin.file_tracer
file_tracer_claims(self, filename) == FileTracer("FileTracer", filename)

file_tracer(self, filename) == None

\* CoveragePlugin.file_reporter
file_reporter_returns_none(self, filename) == None

file_reporter(self, filename) == needs_to_implement(self, "file_reporter")

\* FileTracer.source_filename
source_filename(self) == needs_to_implement(self, "source_filename")

\* FileTracer.has_dynamic_source_filename
has_dynamic_always(self) == TRUE

has_dynamic_source_filename(self) == FALSE

\* FileTracer.dynamic_source_filename
dynamic_source_filename(self, filename, frame) == None

\* FileTracer.line_number_range
line_number_range(self, frame) == <<frame.f_lineno, frame.f_lineno>>

\* a plug-in: the base class as is, or a subclass that overrides
\* file_tracer to claim some files with some class of tracer, and that
\* overrides file_reporter or not ("default")
BasePlugin ==
    [cls |-> "CoveragePlugin", claims |-> {}, tracer |-> "FileTracer", reporter |-> "default"]

TracerPlugins ==
    {[cls |-> "TracerPlugin", claims |-> c, tracer |-> b[1], reporter |-> b[2]] :
        c \in {{"/gen1.py"}, Files},
        b \in {<<"StaticTracer", "FileReporter">>, <<"RangeTracer", "python">>,
               <<"DynamicTracer", "None">>, <<"StaticTracer", "default">>}}

PluginKinds == {BasePlugin} \cup TracerPlugins

\* the subclass's file_tracer and file_reporter
TracerPlugin_file_tracer(self, filename) ==
    IF filename \in self.claims THEN FileTracer(self.tracer, filename) ELSE None

TracerPlugin_file_reporter(self, filename) ==
    CASE self.reporter = "FileReporter" -> FileReporter("PluginReporter", filename, {}, {})
      [] self.reporter = "python" -> PythonStr
      [] self.reporter = "None" -> None

\* method resolution on plug-ins and tracers
plugin_file_tracer(p, filename) ==
    IF p.cls = "CoveragePlugin" THEN file_tracer(p, filename)
    ELSE TracerPlugin_file_tracer(p, filename)

plugin_file_reporter(p, filename) ==
    IF p.reporter = "default" THEN file_reporter(p, filename)
    ELSE TracerPlugin_file_reporter(p, filename)

tracer_source_filename(t) ==
    IF t.cls = "FileTracer" THEN source_filename(t) ELSE Str(SourceOf(t.filename))

tracer_has_dynamic_source_filename(t) ==
    IF t.cls = "DynamicTracer" THEN TRUE ELSE has_dynamic_source_filename(t)

tracer_dynamic_source_filename(t, filename, frame) ==
    IF t.cls = "DynamicTracer" THEN frame.tpl
    ELSE dynamic_source_filename(t, filename, frame)

tracer_line_number_range(t, frame) ==
    IF t.cls = "RangeTracer" THEN frame.range ELSE line_number_range(t, frame)

\* ------------------------------------------------ the measurement engine
\* number of registered plug-ins, and of execution frames observed
NumPlugins == 2

MaxFrames == 3

Unseen == [state |-> "unseen"]

Pending == [pending |-> TRUE]

RECURSIVE Arbitrate(_, _, _)
\* the arbitration loop from plug-in i on: ask each plug-in in
\* registration order, stop at the first that returns a tracer
Arbitrate(i, filename, sofar) ==
    IF i > Len(plugins)
    THEN [plugin |-> 0, tracer |-> None, asked |-> sofar]
    ELSE LET t == plugin_file_tracer(plugins[i], filename)
         IN  IF t # None
             THEN [plugin |-> i, tracer |-> t, asked |-> Append(sofar, i)]
             ELSE Arbitrate(i + 1, filename, Append(sofar, i))

\* a file path is seen for the first time: find its tracer, and read and
\* cache the tracer's has_dynamic_source_filename()
FirstSeen(filename) ==
    /\ phase = "measure"
    /\ disp[filename] = Unseen
    /\ LET a == Arbitrate(1, filename, <<>>)
           claimed == a.tracer # None
       IN  /\ asked' = [asked EXCEPT ![filename] = a.asked]
           /\ disp' = [disp EXCEPT ![filename] =
                  [state |-> "seen", plugin |-> a.plugin, tracer |-> a.tracer,
                   has_dynamic |-> IF claimed
                                   THEN tracer_has_dynamic_source_filename(a.tracer)
                                   ELSE FALSE,
                   flagreads |-> IF claimed THEN 1 ELSE 0]]
    /\ UNCHANGED <<plugins, dyncalled, returned, recorded, last, nframes,
                   report, phase, fatal>>
    /\ UNCHANGED <<tokvars, repvars, ctxvars>>

\* the lines of one returned range are added; (-1, -1) adds nothing
RecordKeepsSentinel(lineset, rng) == lineset \cup (rng[1]..rng[2])

Record(lineset, rng) ==
    IF rng = <<-1, -1>> THEN lineset ELSE lineset \cup (rng[1]..rng[2])

\* a frame of a claimed file executes a line
Frame(filename, frame) ==
    /\ phase = "measure"
    /\ disp[filename] # Unseen
    /\ disp[filename].plugin # 0
    /\ nframes < MaxFrames
    /\ nframes' = nframes + 1
    /\ LET d == disp[filename]
           src == IF d.has_dynamic
                  THEN tracer_dynamic_source_filename(d.tracer, filename, frame)
                  ELSE tracer_source_filename(d.tracer)
           rng == tracer_line_number_range(d.tracer, frame)
       IN  /\ dyncalled' = IF d.has_dynamic THEN dyncalled \cup {filename} ELSE dyncalled
           /\ IF IsError(src)
              THEN /\ fatal' = src
                   /\ phase' = "failed"
                   /\ last' = [file |-> filename, dyncalled |-> d.has_dynamic,
                               src |-> None, range |-> <<>>]
                   /\ UNCHANGED <<returned, recorded>>
              ELSE IF src = None
              THEN /\ last' = [file |-> filename, dyncalled |-> d.has_dynamic,
                               src |-> None, range |-> <<>>]
                   /\ UNCHANGED <<returned, recorded, fatal, phase>>
              ELSE /\ last' = [file |-> filename, dyncalled |-> d.has_dynamic,
                               src |-> src, range |-> rng]
                   /\ returned' = returned \cup {<<src.str, rng>>}
                   /\ recorded' = [recorded EXCEPT ![src.str] = Record(@, rng)]
                   /\ UNCHANGED <<fatal, phase>>
    /\ UNCHANGED <<plugins, disp, asked, report>>
    /\ UNCHANGED <<tokvars, repvars, ctxvars>>

\* execution completes: the analysis phase starts
EndMeasure ==
    /\ phase = "measure"
    /\ phase' = "report"
    /\ UNCHANGED <<plugins, disp, asked, dyncalled, returned, recorded, last,
                   nframes, report, fatal>>
    /\ UNCHANGED <<tokvars, repvars, ctxvars>>

\* the plug-in that claimed a file is asked for its reporter; a plug-in
\* that returns nothing is a fatal error
GetFileReporter(filename) ==
    /\ phase = "report"
    /\ disp[filename] # Unseen
    /\ disp[filename].plugin # 0
    /\ report[filename] = Pending
    /\ LET p == plugins[disp[filename].plugin]
           r == plugin_file_reporter(p, filename)
           out == IF r = None
                  THEN [error |-> "did not provide a file reporter",
                        class |-> p.cls, method |-> "file_reporter"]
                  ELSE r
       IN  /\ report' = [report EXCEPT ![filename] = out]
           /\ IF IsError(out)
              THEN fatal' = out /\ phase' = "failed"
              ELSE UNCHANGED <<fatal, phase>>
    /\ UNCHANGED <<plugins, disp, asked, dyncalled, returned, recorded, last, nframes>>
    /\ UNCHANGED <<tokvars, repvars, ctxvars>>

RepIdle ==
    /\ reps = <<>>
    /\ ret = NoCall
    /\ recd = <<>>
    /\ outs = <<>>

\* start-up: the plug-ins are registered, nothing has executed
EngInit ==
    /\ plugins \in [1..NumPlugins -> PluginKinds]
    /\ disp = [f \in Files |-> Unseen]
    /\ asked = [f \in Files |-> <<>>]
    /\ dyncalled = {}
    /\ returned = {}
    /\ recorded = [s \in Sources |-> {}]
    /\ last = None
    /\ nframes = 0
    /\ report = [f \in Files |-> Pending]
    /\ phase = "measure"
    /\ fatal = None
    /\ TokIdle
    /\ RepIdle
    /\ CtxIdle

EngNext ==
    \/ \E f \in Files : FirstSeen(f)
    \/ \E f \in Files, fr \in Frames : Frame(f, fr)
    \/ EndMeasure
    \/ \E f \in Files : GetFileReporter(f)

SpecEng == EngInit /\ [][EngNext]_vars

\* the plug-ins that return a tracer for a file
Claimers(filename) ==
    {i \in 1..Len(plugins) : plugin_file_tracer(plugins[i], filename) # None}

Claimed(filename) == disp[filename] # Unseen /\ disp[filename].plugin # 0

\* C2: for a file some plug-in's file_tracer claimed, file_reporter never
\* yields nothing: the outcome is a reporter or the string "python", and
\* otherwise a fatal error naming the plug-in and file_reporter; a plug-in
\* that does not override file_reporter ends in that error.
C2_ReporterOrError ==
    \A f \in Files :
        Claimed(f) /\ report[f] # Pending =>
            LET p == plugins[disp[f].plugin]
                out == report[f]
            IN  /\ out # None
                /\ \/ out = PythonStr
                   \/ /\ "cls" \in DOMAIN out
                      /\ out.cls \in ReporterClasses
                   \/ /\ IsError(out)
                      /\ out.class = p.cls
                      /\ out.method = "file_reporter"
                      /\ fatal = out
                      /\ phase = "failed"
                /\ p.reporter = "None" => IsError(out)
                /\ p.reporter = "default" =>
                       out = [error |-> "needs to implement", class |-> p.cls,
                              method |-> "file_reporter"]

\* a plug-in that claims a file with file_tracer and keeps the default
\* file_reporter was asked for the file's reporter
C2_Witness ==
    \E f \in Files :
        /\ Claimed(f)
        /\ plugins[disp[f].plugin].reporter = "default"
        /\ IsError(report[f])

\* C3: the lines recorded for a source file are exactly the union of the
\* inclusive ranges returned by line_number_range for its frames, the
\* (-1, -1) results left out; measuring never ends in an error.
C3_RecordedIsUnionOfRanges ==
    /\ \A s \in Sources :
           recorded[s] =
               UNION {r[2][1]..r[2][2] : r \in {q \in returned : q[1] = s /\ q[2] # <<-1, -1>>}}
    /\ phase = "measure" => fatal = None
    /\ fatal # None => fatal.method = "file_reporter"

\* three frames of one file returned two ranges with lines and (-1, -1)
C3_Witness ==
    \E s \in Sources :
        /\ <<s, <<-1, -1>>>> \in returned
        /\ Cardinality({q \in returned : q[1] = s}) = 3
        /\ recorded[s] = Lines
        /\ phase = "measure"

\* C4: the plug-ins are asked file_tracer(path) in registration order up
\* to the first that returns a tracer; that plug-in's tracer is used, no
\* later plug-in is asked, a file is left to no plug-in only if all of
\* them returned None, and the default file_tracer never claims.
C4_FirstClaimerWins ==
    \A f \in Files :
        disp[f] # Unseen =>
            LET c == Claimers(f)
                k == disp[f].plugin
            IN  /\ c = {} <=> k = 0
                /\ k # 0 =>
                       /\ k \in c
                       /\ \A i \in c : k <= i
                       /\ asked[f] = [i \in 1..k |-> i]
                       /\ disp[f].tracer = plugin_file_tracer(plugins[k], f)
                       /\ plugins[k].cls # "CoveragePlugin"
                /\ k = 0 =>
                       /\ asked[f] = [i \in 1..Len(plugins) |-> i]
                       /\ disp[f].tracer = None

\* a file was claimed by the second plug-in after the first declined, and
\* another file by the first of two plug-ins that both claim it
C4_Witness ==
    /\ disp["/gen2.py"] # Unseen
    /\ disp["/gen2.py"].plugin = 2
    /\ disp["/gen1.py"] # Unseen
    /\ disp["/gen1.py"].plugin = 1
    /\ Claimers("/gen1.py") = {1, 2}

\* C9: has_dynamic_source_filename() is read once per tracer and cached;
\* dynamic_source_filename is invoked for a frame only if the cached flag
\* is true; a tracer that keeps the default flag never has it invoked and
\* its frames are attributed to source_filename().
C9_DynamicOnlyWhenFlagged ==
    /\ \A f \in Files :
           Claimed(f) =>
               /\ disp[f].flagreads = 1
               /\ disp[f].has_dynamic = (disp[f].tracer.cls = "DynamicTracer")
               /\ f \in dyncalled => disp[f].has_dynamic
    /\ \A f \in Files : ~Claimed(f) => f \notin dyncalled
    /\ last # None =>
           LET d == disp[last.file]
           IN  /\ last.dyncalled = d.has_dynamic
               /\ d.tracer.cls # "DynamicTracer" =>
                      /\ ~last.dyncalled
                      /\ last.src = tracer_source_filename(d.tracer)

\* a frame of a tracer with the default flag was measured after a frame of
\* a dynamic tracer had dynamic_source_filename invoked
C9_Witness ==
    /\ last # None
    /\ disp[last.file].tracer.cls = "StaticTracer"
    /\ last.src = Str(SourceOf(last.file))
    /\ dyncalled # {}

\* ------------------------------------------------------ dynamic contexts
\* deepest call stack observed
MaxDepth == 3

\* the labels a context plug-in computes from a frame (test names)
CtxLabels == {"test_a", "test_b"}

\* a frame as the context plug-in sees it: the label its dynamic_context
\* computes for it, None for a frame that starts nothing
CtxFrames == [label : {None} \cup {Str(n) : n \in CtxLabels}]

\* CoveragePlugin.dynamic_context
dynamic_context_starts(self, frame) == Str("test_a")

dynamic_context(self, frame) == None

\* a subclass's dynamic_context
ContextPlugin_dynamic_context(self, frame) == frame.label

ContextPlugins == {[cls |-> "CoveragePlugin"], [cls |-> "ContextPlugin"]}

plugin_dynamic_context(p, frame) ==
    IF p.cls = "ContextPlugin" THEN ContextPlugin_dynamic_context(p, frame)
    ELSE dynamic_context(p, frame)

NotAsked == [notasked |-> TRUE]

\* a frame is entered: outside of a dynamic context the plug-in is asked,
\* and a label it returns becomes the context of this frame and below
CallFrame(frame) ==
    /\ phase = "contexts"
    /\ Len(stack) < MaxDepth
    /\ IF context = None
       THEN LET c == plugin_dynamic_context(cplugin, frame)
            IN  /\ lastctx' = c
                /\ context' = c
                /\ stack' = Append(stack, [frame |-> frame, started |-> c # None])
       ELSE /\ lastctx' = NotAsked
            /\ stack' = Append(stack, [frame |-> frame, started |-> FALSE])
            /\ UNCHANGED context
    /\ UNCHANGED <<cplugin, tagged>>
    /\ UNCHANGED <<plugins, disp, asked, dyncalled, returned, recorded, last,
                   nframes, report, phase, fatal>>
    /\ UNCHANGED <<tokvars, repvars>>

\* the current frame returns: the context it started ends
ReturnFrame ==
    /\ phase = "contexts"
    /\ stack # <<>>
    /\ stack' = SubSeq(stack, 1, Len(stack) - 1)
    /\ context' = IF stack[Len(stack)].started THEN None ELSE context
    /\ UNCHANGED <<cplugin, tagged, lastctx>>
    /\ UNCHANGED engvars
    /\ UNCHANGED <<tokvars, repvars>>

\* a line of the current frame is measured and tagged with the context
MeasureLine(lineno) ==
    /\ phase = "contexts"
    /\ stack # <<>>
    /\ tagged' = tagged \cup {<<context, lineno>>}
    /\ UNCHANGED <<cplugin, stack, context, lastctx>>
    /\ UNCHANGED engvars
    /\ UNCHANGED <<tokvars, repvars>>

CtxInit ==
    /\ cplugin \in ContextPlugins
    /\ stack = <<>>
    /\ context = None
    /\ tagged = {}
    /\ lastctx = NotAsked
    /\ plugins = <<>>
    /\ disp = <<>>
    /\ asked = <<>>
    /\ dyncalled = {}
    /\ returned = {}
    /\ recorded = <<>>
    /\ last = None
    /\ nframes = 0
    /\ report = <<>>
    /\ phase = "contexts"
    /\ fatal = None
    /\ TokIdle
    /\ RepIdle

CtxNext ==
    \/ \E fr \in CtxFrames : CallFrame(fr)
    \/ ReturnFrame
    \/ \E l \in Lines : MeasureLine(l)

SpecCtx == CtxInit /\ [][CtxNext]_vars

\* the frames of a stack that started a dynamic context
Starters(s) == {i \in 1..Len(s) : s[i].started}

\* the label in effect for a stack: that of the frame that started a
\* context and has not returned
ActiveLabel(s) ==
    IF Starters(s) = {} THEN None
    ELSE s[CHOOSE i \in Starters(s) : TRUE].frame.label

\* C10: a label returned by dynamic_context(frame) is the current context
\* for that frame and all deeper frames and tags every line measured until
\* that frame returns, when the context ends; a result of None (which is
\* what the default returns) leaves the current context unchanged.
C10_ContextFollowsFrame ==
    /\ [](/\ Cardinality(Starters(stack)) <= 1
          /\ context = ActiveLabel(stack)
          /\ Starters(stack) # {} => context # None
          /\ cplugin.cls = "CoveragePlugin" => context = None)
    /\ [][/\ tagged' \subseteq tagged \cup {<<ActiveLabel(stack), l>> : l \in Lines}
          /\ Len(stack') > Len(stack) /\ lastctx' = None => context' = context
          /\ Len(stack') > Len(stack) /\ lastctx' \notin {None, NotAsked} =>
                 context' = lastctx' /\ stack'[Len(stack')].started
          /\ Len(stack') < Len(stack) /\ stack[Len(stack)].started => context' = None
          /\ Len(stack') < Len(stack) /\ ~stack[Len(stack)].started => context' = context
         ]_vars

\* a line was measured two frames below the frame that started a context,
\* and another line outside of any context
C10_Witness ==
    /\ Len(stack) = 3
    /\ stack[1].started
    /\ context = Str("test_b")
    /\ <<Str("test_b"), 1>> \in tagged
    /\ <<None, 2>> \in tagged
    /\ lastctx = NotAsked

\* ------------------------------------------- FileReporter.translate_lines
\* longest list of recorded line numbers, and number of calls on one list
MaxRecorded == 3

MaxCalls == 2

\* the line numbers of the source file under analysis
FileLines == {10, 11, 12, 15, 20}

\* the lists of recorded line numbers a tracer can have produced
RecordedLists == UNION {[1..n -> FileLines] : n \in 0..MaxRecorded}

RECURSIVE set(_)
\* set(iterable): the elements of the list, each once
set(seq) == IF seq = <<>> THEN {} ELSE {Head(seq)} \cup set(Tail(seq))

\* FileReporter.translate_lines: the returned value, with the list and the
\* reporter as the call leaves them
translate_lines_drops_first(self, linelist) ==
    [value |-> IF linelist = <<>> THEN {} ELSE set(Tail(linelist)),
     arg |-> linelist, self |-> self]

translate_lines(self, linelist) ==
    [value |-> set(linelist), arg |-> linelist, self |-> self]

\* translate_lines(recd) is called on the reporter
call_translate_lines ==
    /\ Len(outs) < MaxCalls
    /\ LET r == translate_lines(reps[1], recd)
       IN  /\ ret' = [op |-> "translate_lines", val |-> [value |-> r.value]]
           /\ outs' = Append(outs, r.value)
           /\ recd' = r.arg
           /\ reps' = [reps EXCEPT ![1] = r.self]
    /\ UNCHANGED <<tokvars, engvars, ctxvars>>

\* the analysis of the file: the executed lines are the translated recorded
\* lines, the missing lines are those of lines() that were not executed
Analyze ==
    /\ LET l == Dispatch(reps[1], "lines")
           t == translate_lines(reps[1], recd)
       IN  /\ ret' = IF IsError(l)
                     THEN [op |-> "analysis", val |-> l]
                     ELSE [op |-> "analysis",
                           val |-> [executed |-> t.value, missing |-> l.value \ t.value]]
           /\ recd' = t.arg
           /\ reps' = [reps EXCEPT ![1] = t.self]
    /\ UNCHANGED outs
    /\ UNCHANGED <<tokvars, engvars, ctxvars>>

\* the reporters whose translate_lines is the default: the base class and
\* subclass instances with any set of executable lines
TransReporters ==
    {FileReporter("FileReporter", <<"a">>, {}, {})}
    \cup {FileReporter("PluginReporter", <<"a">>, l, {}) : l \in SUBSET FileLines}

TransInit ==
    /\ reps \in [1..1 -> TransReporters]
    /\ recd \in RecordedLists
    /\ ret = NoCall
    /\ outs = <<>>
    /\ TokIdle
    /\ EngIdle
    /\ CtxIdle

TransNext == call_translate_lines \/ Analyze

SpecTrans == TransInit /\ [][TransNext]_vars

\* C11: the default translate_lines returns exactly the set of the numbers
\* of the recorded list, leaves the list and the reporter unchanged, and
\* returns equal values on repeated calls; with lines() = {10,11,12,15,20}
\* and recorded 10, 12, 15 the executed lines are {10,12,15} and the
\* missing lines {11,20}.
C11_TranslateIdentity ==
    /\ [](/\ \A i \in 1..Len(outs) : outs[i] = {recd[k] : k \in 1..Len(recd)}
          /\ \A i, j \in 1..Len(outs) : outs[i] = outs[j]
          /\ ret.op = "translate_lines" =>
                 ret.val.value = {recd[k] : k \in 1..Len(recd)}
          /\ ret.op = "analysis" /\ ~IsError(ret.val) =>
                 /\ ret.val.executed = {recd[k] : k \in 1..Len(recd)}
                 /\ ret.val.missing =
                        {n \in reps[1].linedata : \A k \in 1..Len(recd) : recd[k] # n}
          /\ /\ ret.op = "analysis"
             /\ reps[1].cls = "PluginReporter"
             /\ reps[1].linedata = {10, 11, 12, 15, 20}
             /\ recd = <<10, 12, 15>>
             => ret.val = [executed |-> {10, 12, 15}, missing |-> {11, 20}])
    /\ [][recd' = recd /\ reps' = reps]_vars

\* translate_lines was called twice on the recorded lines 10, 12, 15 of a
\* reporter with lines() = {10,11,12,15,20}, and the file was analysed
C11_Witness ==
    /\ Len(outs) = 2
    /\ recd = <<10, 12, 15>>
    /\ reps[1].linedata = {10, 11, 12, 15, 20}
    /\ ret.op = "analysis"
    /\ ret.val = [executed |-> {10, 12, 15}, missing |-> {11, 20}]

====
